---------------------------- MODULE Spec2Model ----------------------------
(***************************************************************************)
(* git-dig: the analysis engine (hotspots, coupling, codeAge, authors,     *)
(* knowledgeSilos, analyzeAll) as a state machine.                         *)
(*                                                                         *)
(* The state is the command line of the tool (argv, without the node and   *)
(* script entries), the git log text handed to the parser (raw), the commit*)
(* sequence handed to the analyzers, the wall clock read by codeAge, and   *)
(* the last invocation: which function was called (pc), with which options *)
(* (opts) and what it returned (result).                                   *)
(*                                                                         *)
(* A path is a sequence of one-character strings (JavaScript strings are   *)
(* sequences of UTF-16 code units); a Map is the sequence of its entries   *)
(* in insertion order; a Set of authors is a set.  Instants are counted in *)
(* half days, so that one day is Day units.                                *)
(***************************************************************************)
EXTENDS Integers, Sequences, FiniteSets, TLC

VARIABLES argv, raw, commits, now, pc, opts, result

vars == <<argv, raw, commits, now, pc, opts, result>>

-----------------------------------------------------------------------------
(* Bounds of the model *)

MaxCommits == 2
MaxCouplingCommits == 3
MaxAgeCommits == 2
MaxSiloCommits == 2
MaxAllCommits == 2
MaxMaxFiles == 3
MaxTop == 3
MaxMinCommits == 3
MaxTicks == 2
MaxAuthorCommits == 3
MaxBlocks == 2
MaxStatLines == 2
MaxArgs == 2
MaxCliCommits == 3
MaxPurityCommits == 2

-----------------------------------------------------------------------------
(* Generic JavaScript helpers *)

Min(a, b) == IF a <= b THEN a ELSE b

Max(a, b) == IF a >= b THEN a ELSE b

SeqsUpTo(S, n) == UNION {[1..k -> S] : k \in 0..n}

\* Array.prototype.slice(0, end): a negative end counts from the back, and
\* the end is clamped to the length.
Slice(s, end) ==
  LET e == IF end < 0 THEN Max(Len(s) + end, 0) ELSE Min(end, Len(s))
  IN  SubSeq(s, 1, e)

-----------------------------------------------------------------------------
(* The comparators handed to Array.prototype.sort *)

\* Mutant: the tie on commits is broken by ascending churn.
HotspotCmpAscendingChurn(x, y) ==
  IF y.commits - x.commits # 0 THEN y.commits - x.commits ELSE x.churn - y.churn

HotspotCmp(a, b) ==
  IF b.commits - a.commits # 0 THEN b.commits - a.commits ELSE b.churn - a.churn

\* The UTF-16 code unit of a character of the model's alphabet.
CodeUnit(ch) ==
  CASE ch = ":" -> 58 [] ch = "a" -> 97 [] ch = "b" -> 98 [] ch = "c" -> 99
    [] ch = "d" -> 100 [] OTHER -> 122

\* The comparison of Array.prototype.sort() without comparator: strings in
\* code-unit order, a proper prefix first.
StrCmp(x, y) ==
  LET n == Min(Len(x), Len(y))
      d == {i \in 1..n : x[i] # y[i]}
  IN  IF d = {} THEN Len(x) - Len(y)
      ELSE LET k == CHOOSE i \in d : \A j \in d : i <= j
           IN  CodeUnit(x[k]) - CodeUnit(y[k])

\* b.degree - a.degree, as the sort reads it: Infinity - Infinity is NaN,
\* which the sort takes for 0.
DegreeDiff(x, y) ==
  IF ~x.finite /\ ~y.finite THEN 0
  ELSE IF ~x.finite THEN 1
  ELSE IF ~y.finite THEN -1
  ELSE x.hundredths - y.hundredths

CouplingCmp(a, b) ==
  IF b.coupled - a.coupled # 0 THEN b.coupled - a.coupled
  ELSE DegreeDiff(b.degree, a.degree)

\* Mutant: the oldest list in ascending order of age.
OldestCmpAscending(x, y) == x.ageDays - y.ageDays

OldestCmp(a, b) == b.ageDays - a.ageDays

FreshestCmp(a, b) == a.ageDays - b.ageDays

\* Mutant: ascending order of commits.
AuthorCmpAscending(x, y) == x.commits - y.commits

AuthorCmp(a, b) == b.commits - a.commits

\* Mutant: ascending order of commits.
SiloCmpAscending(x, y) == x.commits - y.commits

SiloCmp(a, b) == b.commits - a.commits

\* The comparator of a call of sort, by the analyzer that makes the call.
Compare(cmp, x, y) ==
  CASE cmp = "hotspots" -> HotspotCmp(x, y)
    [] cmp = "paths" -> StrCmp(x, y)
    [] cmp = "coupling" -> CouplingCmp(x, y)
    [] cmp = "oldest" -> OldestCmp(x, y)
    [] cmp = "freshest" -> FreshestCmp(x, y)
    [] cmp = "authors" -> AuthorCmp(x, y)
    [] cmp = "silos" -> SiloCmp(x, y)

\* Array.prototype.sort(cmp) is stable (ECMAScript 2019): an element goes
\* behind the elements the comparator orders before it and behind the equal
\* ones that preceded it in the input.
SortRank(s, i, cmp) ==
  1 + Cardinality({j \in 1..Len(s) :
                     Compare(cmp, s[j], s[i]) < 0
                     \/ (Compare(cmp, s[j], s[i]) = 0 /\ j < i)})

SortBy(s, cmp) ==
  [r \in 1..Len(s) |-> s[CHOOSE i \in 1..Len(s) : SortRank(s, i, cmp) = r]]

-----------------------------------------------------------------------------
(* Maps and options *)

\* Destructuring with a default, { name = dflt }: the option when the caller
\* passed it, the default otherwise.
Option(o, name, dflt) == IF name \in DOMAIN o THEN o[name] ELSE dflt

\* Map.has / index of the entry of a key in a Map (0 when absent).
HasKey(map, k) == \E i \in 1..Len(map) : map[i].key = k

IndexOfKey(map, k) == CHOOSE i \in 1..Len(map) : map[i].key = k

-----------------------------------------------------------------------------
(* hotspots *)

HotspotsDefaultTop == 20

\* Lines 10-17: the body of the loop over the files of one commit.
HotspotsTouch(files, f, author) ==
  LET files1 == IF HasKey(files, f.path) THEN files
                ELSE Append(files, [key |-> f.path, path |-> f.path, commits |-> 0,
                                    added |-> 0, deleted |-> 0, authors |-> {}])
      i == IndexOfKey(files1, f.path)
  IN  [files1 EXCEPT ![i] = [@ EXCEPT !.commits = @ + 1,
                                      !.added = @ + f.added,
                                      !.deleted = @ + f.deleted,
                                      !.authors = @ \cup {author}]]

RECURSIVE HotspotsCommit(_, _, _)
HotspotsCommit(files, fs, author) ==
  IF fs = <<>> THEN files
  ELSE HotspotsCommit(HotspotsTouch(files, Head(fs), author), Tail(fs), author)

RECURSIVE HotspotsFiles(_, _)
HotspotsFiles(files, cs) ==
  IF cs = <<>> THEN files
  ELSE HotspotsFiles(HotspotsCommit(files, Head(cs).files, Head(cs).author), Tail(cs))

HotspotEntry(f) ==
  [path |-> f.path, commits |-> f.commits, churn |-> f.added + f.deleted,
   added |-> f.added, deleted |-> f.deleted, authors |-> Cardinality(f.authors)]

hotspots(cs, top) ==
  LET files == HotspotsFiles(<<>>, cs)
      mapped == [i \in 1..Len(files) |-> HotspotEntry(files[i])]
  IN  Slice(SortBy(mapped, "hotspots"), top)

-----------------------------------------------------------------------------
(* coupling *)

CouplingDefaultTop == 20
CouplingDefaultMinCommits == 3
CouplingDefaultMaxFiles == 30

\* [...new Set(commit.files.map(f => f.path))]: first occurrences, in order.
DistinctPaths(files) ==
  LET F[i \in 0..Len(files)] ==
        IF i = 0 THEN <<>>
        ELSE IF \E k \in 1..Len(F[i - 1]) : F[i - 1][k] = files[i].path
             THEN F[i - 1]
             ELSE Append(F[i - 1], files[i].path)
  IN  F[Len(files)]

\* map.set(k, (map.get(k) || 0) + 1)
MapIncrement(map, k) ==
  IF HasKey(map, k)
  THEN [map EXCEPT ![IndexOfKey(map, k)].count = @ + 1]
  ELSE Append(map, [key |-> k, count |-> 1])

\* map.get(k) || 0
MapGetOrZero(map, k) == IF HasKey(map, k) THEN map[IndexOfKey(map, k)].count ELSE 0

Separator == <<":", ":", ":">>

\* `${paths[i]}:::${paths[j]}`
PairKey(x, y) == x \o Separator \o y

\* String.prototype.split(':::'): cut at every occurrence, left to right.
RECURSIVE Split(_)
Split(s) ==
  LET hits == {i \in 1..(Len(s) - 2) : SubSeq(s, i, i + 2) = Separator}
  IN  IF hits = {} THEN <<s>>
      ELSE LET i == CHOOSE h \in hits : \A g \in hits : h <= g
           IN  <<SubSeq(s, 1, i - 1)>> \o Split(SubSeq(s, i + 3, Len(s)))

RECURSIVE CouplingCountPaths(_, _)
CouplingCountPaths(fileCounts, paths) ==
  IF paths = <<>> THEN fileCounts
  ELSE CouplingCountPaths(MapIncrement(fileCounts, Head(paths)), Tail(paths))

\* Lines 52-57: the two nested loops, from position (i, j).
RECURSIVE CouplingCountPairs(_, _, _, _)
CouplingCountPairs(pairs, paths, i, j) ==
  IF i > Len(paths) THEN pairs
  ELSE IF j > Len(paths) THEN CouplingCountPairs(pairs, paths, i + 1, i + 2)
  ELSE CouplingCountPairs(MapIncrement(pairs, PairKey(paths[i], paths[j])),
                          paths, i, j + 1)

\* Lines 45-57: one commit.
CouplingCommit(maps, commit, maxFilesPerCommit) ==
  LET paths == SortBy(DistinctPaths(commit.files), "paths")
  IN  IF Len(paths) < 2 \/ Len(paths) > maxFilesPerCommit THEN maps
      ELSE [fileCounts |-> CouplingCountPaths(maps.fileCounts, paths),
            pairs |-> CouplingCountPairs(maps.pairs, paths, 1, 2)]

RECURSIVE CouplingMaps(_, _, _)
CouplingMaps(maps, cs, maxFilesPerCommit) ==
  IF cs = <<>> THEN maps
  ELSE CouplingMaps(CouplingCommit(maps, Head(cs), maxFilesPerCommit), Tail(cs),
                    maxFilesPerCommit)

Infinity == [finite |-> FALSE, hundredths |-> 0]

\* Math.round(count / Math.min(totalA, totalB) * 100) / 100, in hundredths;
\* a positive count divided by 0 is Infinity.
Degree(count, totalA, totalB) ==
  LET m == Min(totalA, totalB)
  IN  IF m = 0 THEN Infinity
      ELSE [finite |-> TRUE, hundredths |-> (200 * count + m) \div (2 * m)]

CouplingEntry(e, fileCounts) ==
  LET parts == Split(e.key)
      fileA == parts[1]
      fileB == parts[2]
      totalA == MapGetOrZero(fileCounts, fileA)
      totalB == MapGetOrZero(fileCounts, fileB)
  IN  [fileA |-> fileA, fileB |-> fileB, coupled |-> e.count,
       degree |-> Degree(e.count, totalA, totalB)]

\* Mutant: the filter keeps every pair.
CouplingFilterKeepsAll(pairs, minCommits) == pairs

CouplingFilter(pairs, minCommits) == SelectSeq(pairs, LAMBDA e : e.count >= minCommits)

coupling(cs, top, minCommits, maxFilesPerCommit) ==
  LET maps == CouplingMaps([pairs |-> <<>>, fileCounts |-> <<>>], cs, maxFilesPerCommit)
      kept == CouplingFilter(maps.pairs, minCommits)
      mapped == [i \in 1..Len(kept) |-> CouplingEntry(kept[i], maps.fileCounts)]
  IN  Slice(SortBy(mapped, "coupling"), top)

-----------------------------------------------------------------------------
(* codeAge *)

\* 1000 * 60 * 60 * 24 milliseconds, in half days.
Day == 2

CodeAgeListCap == 15
FreshDays == 7
RecentDays == 30
AgingDays == 90
StaleDays == 365

\* new Date(dateStr): the instant of an ISO-8601 string, its local time less
\* its offset from UTC.
ParseDate(d) == d.local - d.offset

\* if (!map.has(path)) map.set(path, date)
MapSetIfAbsent(map, k, v) ==
  IF HasKey(map, k) THEN map ELSE Append(map, [key |-> k, value |-> v])

MapGet(map, k) == map[IndexOfKey(map, k)].value

\* Lines 87-89: one file of one commit.
CodeAgeTouch(maps, f, date) ==
  [firstSeen |-> MapSetIfAbsent(maps.firstSeen, f.path, date),
   lastModified |-> MapSetIfAbsent(maps.lastModified, f.path, date)]

\* Lines 86-90: the files of one commit, from the i-th on.
RECURSIVE CodeAgeCommit(_, _, _, _)
CodeAgeCommit(maps, fs, i, date) ==
  IF i > Len(fs) THEN maps
  ELSE IF HasKey(maps.firstSeen, fs[i].path) /\ HasKey(maps.lastModified, fs[i].path)
  THEN CodeAgeCommit(maps, fs, i + 1, date)
  ELSE CodeAgeCommit(CodeAgeTouch(maps, fs[i], date), fs, i + 1, date)

\* Lines 84-91: the commits, from the k-th on.
RECURSIVE CodeAgeMaps(_, _, _)
CodeAgeMaps(maps, cs, k) ==
  IF k > Len(cs) THEN maps
  ELSE CodeAgeMaps(CodeAgeCommit(maps, cs[k].files, 1, cs[k].date), cs, k + 1)

\* Lines 96-102: the entry of one path.
CodeAgeFile(e, firstSeen, clock) ==
  LET last == ParseDate(e.value)
      ageMs == clock - last
  IN  [path |-> e.key, lastModified |-> e.value, firstSeen |-> MapGet(firstSeen, e.key),
       ageDays |-> ageMs \div Day]

\* Mutant: a file older than a year is counted in no bucket.
BucketOfNoAncient(ageDays) ==
  IF ageDays <= FreshDays THEN "fresh"
  ELSE IF ageDays <= RecentDays THEN "recent"
  ELSE IF ageDays <= AgingDays THEN "aging"
  ELSE IF ageDays <= StaleDays THEN "stale"
  ELSE "none"

\* Lines 107-111.
BucketOf(ageDays) ==
  IF ageDays <= FreshDays THEN "fresh"
  ELSE IF ageDays <= RecentDays THEN "recent"
  ELSE IF ageDays <= AgingDays THEN "aging"
  ELSE IF ageDays <= StaleDays THEN "stale"
  ELSE "ancient"

BucketNames == {"fresh", "recent", "aging", "stale", "ancient"}

CodeAgeBuckets(files) ==
  [n \in BucketNames |->
     Cardinality({i \in 1..Len(files) : BucketOf(files[i].ageDays) = n})]

codeAge(cs, clock) ==
  LET maps == CodeAgeMaps([firstSeen |-> <<>>, lastModified |-> <<>>], cs, 1)
      files == [i \in 1..Len(maps.lastModified) |->
                  CodeAgeFile(maps.lastModified[i], maps.firstSeen, clock)]
  IN  [buckets |-> CodeAgeBuckets(files),
       oldest |-> Slice(SortBy(files, "oldest"), CodeAgeListCap),
       freshest |-> Slice(SortBy(files, "freshest"), CodeAgeListCap),
       totalFiles |-> Len(files)]

-----------------------------------------------------------------------------
(* knowledgeSilos *)

SilosDefaultMinCommits == 2
SiloCap == 30

\* Lines 165-167: the entry of the path gets the author and one more commit.
SilosCount(fileAuthors, path, author) ==
  [fileAuthors EXCEPT ![IndexOfKey(fileAuthors, path)] =
     [@ EXCEPT !.authors = @ \cup {author}, !.commits = @ + 1]]

\* Lines 161-168: the files of one commit, from the i-th on.
RECURSIVE SilosCommit(_, _, _, _)
SilosCommit(fileAuthors, fs, i, author) ==
  IF i > Len(fs) THEN fileAuthors
  ELSE IF ~HasKey(fileAuthors, fs[i].path)
  THEN SilosCommit(SilosCount(Append(fileAuthors,
                                     [key |-> fs[i].path, authors |-> {}, commits |-> 0]),
                              fs[i].path, author),
                   fs, i + 1, author)
  ELSE SilosCommit(SilosCount(fileAuthors, fs[i].path, author), fs, i + 1, author)

\* Lines 160-169: the commits, from the k-th on.
RECURSIVE SilosFileAuthors(_, _, _)
SilosFileAuthors(fileAuthors, cs, k) ==
  IF k > Len(cs) THEN fileAuthors
  ELSE SilosFileAuthors(SilosCommit(fileAuthors, cs[k].files, 1, cs[k].author), cs, k + 1)

\* Mutant: any number of authors qualifies.
SiloQualifiesAnyAuthors(data, minCommits) ==
  Cardinality(data.authors) >= 1 /\ data.commits >= minCommits

\* Line 173.
SiloQualifies(data, minCommits) ==
  Cardinality(data.authors) = 1 /\ data.commits >= minCommits

\* Lines 174-178; [...data.authors][0] is the first author added to the Set.
SiloEntry(data) ==
  [path |-> data.key, author |-> CHOOSE x \in data.authors : TRUE,
   commits |-> data.commits]

knowledgeSilos(cs, minCommits) ==
  LET fileAuthors == SilosFileAuthors(<<>>, cs, 1)
      kept == SelectSeq(fileAuthors, LAMBDA d : SiloQualifies(d, minCommits))
      silos == [i \in 1..Len(kept) |-> SiloEntry(kept[i])]
  IN  Slice(SortBy(silos, "silos"), SiloCap)

-----------------------------------------------------------------------------
(* authors *)

AuthorsDefaultTop == 15

\* Lines 135-137: one file of the commit of the author at index i.
AuthorsTouch(authorMap, i, f) ==
  [authorMap EXCEPT ![i] = [@ EXCEPT !.added = @ + f.added,
                                     !.deleted = @ + f.deleted,
                                     !.files = @ \cup {f.path}]]

RECURSIVE AuthorsFiles(_, _, _)
AuthorsFiles(authorMap, i, fs) ==
  IF fs = <<>> THEN authorMap
  ELSE AuthorsFiles(AuthorsTouch(authorMap, i, Head(fs)), i, Tail(fs))

\* Lines 129-138: one commit.
AuthorsCommit(authorMap, commit) ==
  LET m1 == IF HasKey(authorMap, commit.author) THEN authorMap
            ELSE Append(authorMap, [key |-> commit.author, name |-> commit.author,
                                    commits |-> 0, added |-> 0, deleted |-> 0,
                                    files |-> {}])
      i == IndexOfKey(m1, commit.author)
  IN  AuthorsFiles([m1 EXCEPT ![i].commits = @ + 1], i, commit.files)

RECURSIVE AuthorsMap(_, _)
AuthorsMap(authorMap, cs) ==
  IF cs = <<>> THEN authorMap
  ELSE AuthorsMap(AuthorsCommit(authorMap, Head(cs)), Tail(cs))

AuthorEntry(x) ==
  [name |-> x.name, commits |-> x.commits, added |-> x.added, deleted |-> x.deleted,
   filesChanged |-> Cardinality(x.files)]

authors(cs, top) ==
  LET authorMap == AuthorsMap(<<>>, cs)
      mapped == [i \in 1..Len(authorMap) |-> AuthorEntry(authorMap[i])]
  IN  Slice(SortBy(mapped, "authors"), top)

-----------------------------------------------------------------------------
(* analyzeAll *)

Null == [null |-> TRUE]

\* Mutant: the date range is built without the check for an empty input.
DateRangeUnchecked(cs) ==
  [from |-> IF cs = <<>> THEN Null ELSE cs[Len(cs)].date,
   to |-> IF cs = <<>> THEN Null ELSE cs[1].date]

\* Lines 195-197.
DateRange(cs) ==
  IF Len(cs) > 0 THEN [from |-> cs[Len(cs)].date, to |-> cs[1].date] ELSE Null

\* Mutant: the range runs from the first element to the last.
SummarySwappedRange(cs) ==
  [totalCommits |-> Len(cs),
   totalAuthors |-> Cardinality({cs[i].author : i \in 1..Len(cs)}),
   dateRange |-> IF Len(cs) > 0 THEN [from |-> cs[1].date, to |-> cs[Len(cs)].date]
                 ELSE Null]

\* Lines 192-198.
Summary(cs) ==
  [totalCommits |-> Len(cs),
   totalAuthors |-> Cardinality({cs[i].author : i \in 1..Len(cs)}),
   dateRange |-> DateRange(cs)]

analyzeAll(cs, clock) ==
  [summary |-> Summary(cs),
   hotspots |-> hotspots(cs, Option(<<>>, "top", HotspotsDefaultTop)),
   coupling |-> coupling(cs, Option(<<>>, "top", CouplingDefaultTop),
                         Option(<<>>, "minCommits", CouplingDefaultMinCommits),
                         Option(<<>>, "maxFilesPerCommit", CouplingDefaultMaxFiles)),
   codeAge |-> codeAge(cs, clock),
   authors |-> authors(cs, Option(<<>>, "top", AuthorsDefaultTop)),
   knowledgeSilos |-> knowledgeSilos(cs, Option(<<>>, "minCommits", SilosDefaultMinCommits))]

-----------------------------------------------------------------------------
(* parseRawLog *)
(* The log text is the sequence of its blocks (the pieces between the      *)
(* separators); a block is its header lines (hash, author, date, message)  *)
(* followed by its numstat lines, and a numstat line is the sequence of    *)
(* its tab-separated fields, each a sequence of characters.                *)

Digits == <<"0", "1", "2", "3", "4", "5", "6", "7", "8", "9">>

IsDigit(ch) == \E d \in 1..10 : Digits[d] = ch

DigitValue(ch) == (CHOOSE d \in 1..10 : Digits[d] = ch) - 1

NaN == [nan |-> TRUE]

\* The number of digits at the front of a string.
LeadingDigits(s) == Cardinality({n \in 1..Len(s) : \A i \in 1..n : IsDigit(s[i])})

RECURSIVE DecimalValue(_, _)
DecimalValue(s, n) ==
  IF n = 0 THEN 0 ELSE 10 * DecimalValue(s, n - 1) + DigitValue(s[n])

\* parseInt(s, 10): an optional sign, then the digits at the front; NaN when
\* there is none.
ParseInt(s) ==
  IF s # <<>> /\ s[1] \in {"-", "+"}
  THEN LET t == Tail(s)
       IN  IF LeadingDigits(t) = 0 THEN NaN
           ELSE IF s[1] = "-" THEN 0 - DecimalValue(t, LeadingDigits(t))
           ELSE DecimalValue(t, LeadingDigits(t))
  ELSE IF LeadingDigits(s) = 0 THEN NaN
  ELSE DecimalValue(s, LeadingDigits(s))

Dash == <<"-">>

\* Line 54.
IsBinary(added, deleted) == added = Dash \/ deleted = Dash

\* Mutant: a binary change counts one line.
ParseCountBinaryOne(isBinary, count) == IF isBinary THEN 1 ELSE ParseInt(count)

\* Lines 57-58: isBinary ? 0 : parseInt(count, 10)
ParseCount(isBinary, count) == IF isBinary THEN 0 ELSE ParseInt(count)

\* Lines 52-60: the record of a line of three fields.
FileRecord(parts) ==
  LET isBinary == IsBinary(parts[1], parts[2])
  IN  [path |-> parts[3],
       added |-> ParseCount(isBinary, parts[1]),
       deleted |-> ParseCount(isBinary, parts[2]),
       binary |-> isBinary]

\* An empty line, after trim: one empty field.
BlankLine == <<<<>>>>

\* Lines 46-61: empty lines and lines that do not have three fields are skipped.
ParseFiles(lines) ==
  LET kept == SelectSeq(lines, LAMBDA l : l # BlankLine /\ Len(l) = 3)
  IN  [i \in 1..Len(kept) |-> FileRecord(kept[i])]

\* Lines 34 and 38: an empty block and a block of fewer than four lines are
\* dropped.
KeepsBlock(block) ==
  /\ Len(block.head) + Len(block.numstat) > 0
  /\ ~(Len(block.head) + Len(block.numstat) < 4)

\* Lines 40-63.
ParseBlock(block) ==
  [hash |-> block.head[1], author |-> block.head[2], date |-> block.head[3],
   message |-> block.head[4], files |-> ParseFiles(block.numstat)]

parseRawLog(r) ==
  LET blocks == SelectSeq(r, KeepsBlock)
  IN  [k \in 1..Len(blocks) |-> ParseBlock(blocks[k])]

-----------------------------------------------------------------------------
(* The command line: parseArgs and run *)

DefaultMaxCommits == 5000

Undefined == [undefined |-> TRUE]

\* args[++i]: the next argument, undefined behind the last one.
ArgAt(args, i) == IF i <= Len(args) THEN args[i] ELSE Undefined

\* The characters of an argument, as far as the code reads them: a number in
\* full, of a flag its first character.
ArgChars(arg) ==
  CASE arg = "100" -> <<"1", "0", "0">>
    [] arg = "repo" -> <<"r", "e", "p", "o">>
    [] OTHER -> <<"-">>

\* parseInt(args[++i], 10): NaN for undefined.
ParseMax(args, i) == IF i <= Len(args) THEN ParseInt(ArgChars(args[i])) ELSE NaN

StartsWithDash(arg) == ArgChars(arg)[1] = "-"

\* process.exit(0) after the help text.
HelpExit == [exit |-> 0]

\* Lines 39-70: the loop over the arguments, from the i-th on.
RECURSIVE ParseArgsFrom(_, _, _)
ParseArgsFrom(o, args, i) ==
  IF i > Len(args) THEN o
  ELSE LET arg == args[i]
       IN  CASE arg \in {"-h", "--help"} -> HelpExit
             [] arg \in {"-s", "--since"} ->
                  ParseArgsFrom([o EXCEPT !.since = ArgAt(args, i + 1)], args, i + 2)
             [] arg \in {"-u", "--until"} ->
                  ParseArgsFrom([o EXCEPT !.until = ArgAt(args, i + 1)], args, i + 2)
             [] arg \in {"-n", "--max"} ->
                  ParseArgsFrom([o EXCEPT !.maxCommits = ParseMax(args, i + 1)],
                                args, i + 2)
             [] arg \in {"-m", "--markdown"} ->
                  ParseArgsFrom([o EXCEPT !.format = "markdown"], args, i + 1)
             [] arg \in {"-j", "--json"} ->
                  ParseArgsFrom([o EXCEPT !.format = "json"], args, i + 1)
             [] arg = "--hotspots" -> ParseArgsFrom([o EXCEPT !.mode = "hotspots"], args, i + 1)
             [] arg = "--coupling" -> ParseArgsFrom([o EXCEPT !.mode = "coupling"], args, i + 1)
             [] arg = "--age" -> ParseArgsFrom([o EXCEPT !.mode = "age"], args, i + 1)
             [] arg = "--authors" -> ParseArgsFrom([o EXCEPT !.mode = "authors"], args, i + 1)
             [] arg = "--silos" -> ParseArgsFrom([o EXCEPT !.mode = "silos"], args, i + 1)
             [] OTHER ->
                  ParseArgsFrom(IF ~StartsWithDash(arg) THEN [o EXCEPT !.path = arg] ELSE o,
                                args, i + 1)

parseArgs(args) ==
  ParseArgsFrom([path |-> ".", since |-> Null, until |-> Null,
                 maxCommits |-> DefaultMaxCommits, format |-> "text", mode |-> "all"],
                args, 1)

\* Line 104: the key under which the selected section is stored.
FilteredKey(mode) == IF mode = "silos" THEN "knowledgeSilos" ELSE mode

\* Line 105: the key under which the selected section is read.
AnalysisKey(mode) ==
  IF mode = "silos" THEN "knowledgeSilos" ELSE IF mode = "age" THEN "codeAge" ELSE mode

\* Lines 103-105.
Filtered(analysis, mode) ==
  (FilteredKey(mode) :> analysis[AnalysisKey(mode)]) @@ [summary |-> analysis.summary]

\* Lines 107-115: the empty sections, overwritten by the entries of filtered.
Full(analysis, mode) ==
  Filtered(analysis, mode)
    @@ [summary |-> analysis.summary, hotspots |-> <<>>, coupling |-> <<>>,
        codeAge |-> Null, authors |-> <<>>, knowledgeSilos |-> <<>>]

\* Lines 99-119: what run hands to output.
Report(cs, clock, mode) ==
  IF mode # "all" THEN Full(analyzeAll(cs, clock), mode) ELSE analyzeAll(cs, clock)

-----------------------------------------------------------------------------
(* Inputs *)

Authors == {"Alice", "Bob"}

Now0 == 400 * Day

DateAt(local, offset) == [local |-> local, offset |-> offset]

Date0 == DateAt(Now0 - 3 * Day, 0)

PathA == <<"a">>
PathB == <<"b">>
PathC == <<"c">>
PathD == <<"d">>

\* File-change records of the hotspot inputs: a path with two different line
\* counts, and paths that tie on commits and differ in churn.
HotspotChanges ==
  {[path |-> PathA, added |-> 0, deleted |-> 0],
   [path |-> PathA, added |-> 2, deleted |-> 1],
   [path |-> PathB, added |-> 1, deleted |-> 1],
   [path |-> PathC, added |-> 0, deleted |-> 4]}

HotspotCommits ==
  {[author |-> au, date |-> Date0, files |-> fs] :
     au \in Authors, fs \in SeqsUpTo(HotspotChanges, 2)}

\* The options object {} of a call without options.
NoOpts == <<>>

InitWith(inputs, options) ==
  /\ argv = <<>>
  /\ raw = <<>>
  /\ commits \in inputs
  /\ opts \in options
  /\ now = Now0
  /\ pc = "start"
  /\ result = <<>>

HotspotsOptions == {NoOpts} \cup {[top |-> t] : t \in 0..MaxTop}

InitHotspots == InitWith(SeqsUpTo(HotspotCommits, MaxCommits), HotspotsOptions)

HotspotsTop(o) == Option(o, "top", HotspotsDefaultTop)

CallHotspots ==
  /\ pc' = "hotspots"
  /\ result' = hotspots(commits, HotspotsTop(opts))
  /\ UNCHANGED <<argv, raw, commits, now, opts>>

NextHotspots == CallHotspots

SpecHotspots == InitHotspots /\ [][NextHotspots]_vars

PathAB == <<"a", ":", ":", ":", "b">>

Change(p) == [path |-> p, added |-> 1, deleted |-> 0]

\* File lists of the coupling inputs: unsorted, repeated and single paths, a
\* commit of three paths, and a path that contains the key separator.
CouplingFileLists ==
  {<<Change(PathA)>>,
   <<Change(PathA), Change(PathB)>>,
   <<Change(PathB), Change(PathA), Change(PathB)>>,
   <<Change(PathC), Change(PathA)>>,
   <<Change(PathC), Change(PathB)>>,
   <<Change(PathB), Change(PathC), Change(PathA)>>,
   <<Change(PathD), Change(PathC)>>,
   <<Change(PathC), Change(PathAB)>>}

CouplingCommits ==
  {[author |-> "Alice", date |-> Date0, files |-> fs] : fs \in CouplingFileLists}

CouplingOptions ==
  {NoOpts} \cup
  {[top |-> t, minCommits |-> m, maxFilesPerCommit |-> x] :
     t \in 0..MaxTop, m \in 1..MaxMinCommits, x \in 2..MaxMaxFiles}

InitCoupling == InitWith(SeqsUpTo(CouplingCommits, MaxCouplingCommits), CouplingOptions)

CouplingTop(o) == Option(o, "top", CouplingDefaultTop)
CouplingMinCommits(o) == Option(o, "minCommits", CouplingDefaultMinCommits)
CouplingMaxFiles(o) == Option(o, "maxFilesPerCommit", CouplingDefaultMaxFiles)

CallCoupling ==
  /\ pc' = "coupling"
  /\ result' = coupling(commits, CouplingTop(opts), CouplingMinCommits(opts),
                        CouplingMaxFiles(opts))
  /\ UNCHANGED <<argv, raw, commits, now, opts>>

NextCoupling == CallCoupling

SpecCoupling == InitCoupling /\ [][NextCoupling]_vars

\* The paths f01, f02, ... of inputs with more paths than a list may hold.
WidePath(n) == <<"f", Digits[(n \div 10) + 1], Digits[(n % 10) + 1]>>

WideFiles(lo, hi) == [j \in 1..(hi - lo + 1) |-> Change(WidePath(lo + j - 1))]

\* Commit dates of the code-age inputs: days ago, at both sides of each
\* bucket boundary, one date in the future, and dates with an offset from UTC.
AgeDates ==
  {DateAt(Now0 - d * Day, 0) : d \in {0, FreshDays, RecentDays + 1, AgingDays,
                                       StaleDays, StaleDays + 1}}
  \cup {DateAt(Now0 + 1, 0), DateAt(Now0 - FreshDays * Day, 1),
        DateAt(Now0 - RecentDays * Day - 1, 0)}

AgeFileLists ==
  {<<>>, <<Change(PathA)>>, <<Change(PathB), Change(PathA)>>,
   <<Change(PathC), Change(PathB)>>}

AgeCommits ==
  {[author |-> "Alice", date |-> d, files |-> fs] : d \in AgeDates, fs \in AgeFileLists}

\* Inputs with more paths than the lists of codeAge hold, at both sides of
\* the boundary between fresh and recent.
AgeWideCommits ==
  {[author |-> "Alice", date |-> DateAt(Now0 - d * Day, 0), files |-> fs] :
     d \in {FreshDays, FreshDays + 1},
     fs \in {WideFiles(1, CodeAgeListCap + 2),
             WideFiles(CodeAgeListCap + 1, CodeAgeListCap + 2)}}

InitCodeAge ==
  InitWith(SeqsUpTo(AgeCommits, MaxAgeCommits) \cup SeqsUpTo(AgeWideCommits, MaxAgeCommits),
           {NoOpts})

CallCodeAge ==
  /\ pc' = "codeAge"
  /\ result' = codeAge(commits, now)
  /\ UNCHANGED <<argv, raw, commits, now, opts>>

\* Time passes between calls.
Tick ==
  /\ now < Now0 + MaxTicks
  /\ now' = now + 1
  /\ UNCHANGED <<argv, raw, commits, pc, opts, result>>

NextCodeAge == CallCodeAge \/ Tick

SpecCodeAge == InitCodeAge /\ [][NextCodeAge]_vars

SiloCommits ==
  {[author |-> au, date |-> Date0, files |-> fs] :
     au \in Authors, fs \in SeqsUpTo({Change(PathA), Change(PathB), Change(PathC)}, 2)}

\* Inputs with more paths than the cap of knowledgeSilos.
WideCommits ==
  {[author |-> au, date |-> Date0, files |-> fs] :
     au \in Authors,
     fs \in {WideFiles(1, SiloCap + 2), WideFiles(1, 2), WideFiles(SiloCap + 1, SiloCap + 2)}}

SilosOptions == {NoOpts} \cup {[minCommits |-> m] : m \in 0..MaxMinCommits}

InitSilos ==
  InitWith(SeqsUpTo(SiloCommits, MaxSiloCommits) \cup SeqsUpTo(WideCommits, MaxSiloCommits),
           {NoOpts})

SilosMinCommits(o) == Option(o, "minCommits", SilosDefaultMinCommits)

\* A call of knowledgeSilos with the options the caller chooses for it.
CallKnowledgeSilos ==
  \E o \in SilosOptions :
    /\ opts' = o
    /\ pc' = "knowledgeSilos"
    /\ result' = knowledgeSilos(commits, SilosMinCommits(o))
    /\ UNCHANGED <<argv, raw, commits, now>>

NextSilos == CallKnowledgeSilos

SpecSilos == InitSilos /\ [][NextSilos]_vars

\* Inputs of analyzeAll: two authors, three dates, line counts, a repeated
\* path and commits of two paths.
AllFileLists ==
  {<<>>,
   <<[path |-> PathA, added |-> 2, deleted |-> 1]>>,
   <<[path |-> PathB, added |-> 1, deleted |-> 1], [path |-> PathA, added |-> 0, deleted |-> 0]>>,
   <<[path |-> PathA, added |-> 2, deleted |-> 1], [path |-> PathA, added |-> 0, deleted |-> 0]>>,
   <<[path |-> PathC, added |-> 0, deleted |-> 4], [path |-> PathB, added |-> 1, deleted |-> 1]>>}

AllDates ==
  {Date0, DateAt(Now0 - RecentDays * Day, 1), DateAt(Now0 - (StaleDays + 1) * Day, 0)}

AllCommits ==
  {[author |-> au, date |-> d, files |-> fs] :
     au \in Authors, d \in AllDates, fs \in AllFileLists}

\* Commits of two file changes: three of them reach the default minCommits
\* of coupling.
AllPairCommits == {c \in AllCommits : Len(c.files) = 2}

InitAnalyzeAll ==
  InitWith(SeqsUpTo(AllCommits, MaxAllCommits)
             \cup [1..(MaxAllCommits + 1) -> AllPairCommits],
           {NoOpts})

CallAnalyzeAll ==
  /\ pc' = "analyzeAll"
  /\ result' = analyzeAll(commits, now)
  /\ UNCHANGED <<argv, raw, commits, now, opts>>

NextAnalyzeAll == CallAnalyzeAll \/ Tick

SpecAnalyzeAll == InitAnalyzeAll /\ [][NextAnalyzeAll]_vars

\* Inputs of authors: author strings that differ in case only, line counts,
\* a repeated path and commits without files.
AuthorNames == {"Alice", "alice", "Bob"}

AuthorCommits ==
  {[author |-> au, date |-> Date0, files |-> fs] : au \in AuthorNames, fs \in AllFileLists}

AuthorsOptions == {NoOpts} \cup {[top |-> t] : t \in 0..MaxTop}

InitAuthors == InitWith(SeqsUpTo(AuthorCommits, MaxAuthorCommits), AuthorsOptions)

AuthorsTop(o) == Option(o, "top", AuthorsDefaultTop)

CallAuthors ==
  /\ pc' = "authors"
  /\ result' = authors(commits, AuthorsTop(opts))
  /\ UNCHANGED <<argv, raw, commits, now, opts>>

NextAuthors == CallAuthors

SpecAuthors == InitAuthors /\ [][NextAuthors]_vars

\* Numstat lines as git prints them: "-" for both counts of a binary file,
\* decimal numbers otherwise; and the empty line after the header.
StatLines ==
  {<<Dash, Dash, PathA>>,
   <<<<"5">>, <<"0">>, PathA>>,
   <<Dash, Dash, PathB>>,
   <<<<"1", "2">>, <<"3">>, PathB>>,
   BlankLine}

\* Blocks of the log: a header of four lines and numstat lines, and the
\* block of a commit without message and without files, three lines long.
RawBlocks ==
  {[head |-> <<"h", au, Date0, "m">>, numstat |-> ls] :
     au \in Authors, ls \in SeqsUpTo(StatLines, MaxStatLines)}
  \cup {[head |-> <<"h", "Alice", Date0>>, numstat |-> <<>>]}

InitParse ==
  /\ argv = <<>>
  /\ raw \in SeqsUpTo(RawBlocks, MaxBlocks)
  /\ commits = <<>>
  /\ opts = NoOpts
  /\ now = Now0
  /\ pc = "start"
  /\ result = <<>>

\* The log text is parsed and the commits are handed to the analyzers.
CallParseRawLog ==
  /\ pc' = "parseRawLog"
  /\ result' = parseRawLog(raw)
  /\ commits' = parseRawLog(raw)
  /\ UNCHANGED <<argv, raw, now, opts>>

NextParse == CallParseRawLog \/ CallHotspots \/ CallAuthors

SpecParse == InitParse /\ [][NextParse]_vars

\* Arguments of the command line: the five section flags, a format flag, flags
\* that take a value, values, the help flag and an unknown flag.
ArgPool ==
  {"--hotspots", "--coupling", "--age", "--authors", "--silos", "-j", "-s", "-n",
   "100", "repo", "-h", "-x"}

\* The history git log returns for the command line: one to three commits of
\* two paths, or none.
CliCommits ==
  {[author |-> au, date |-> Date0, files |-> <<Change(PathB), Change(PathA)>>] :
     au \in Authors}

InitCli ==
  /\ argv \in SeqsUpTo(ArgPool, MaxArgs)
  /\ raw = <<>>
  /\ commits \in SeqsUpTo(CliCommits, MaxCliCommits)
  /\ opts = NoOpts
  /\ now = Now0
  /\ pc = "start"
  /\ result = <<>>

\* Lines 75-120: run.  The commits are what parseGitLog returns, unless git
\* fails.
Run ==
  /\ pc = "start"
  /\ \E gitFails \in BOOLEAN :
       LET o == parseArgs(argv)
       IN  IF o = HelpExit
           THEN pc' = "exit0" /\ UNCHANGED <<opts, result>>
           ELSE /\ opts' = o
                /\ IF gitFails \/ Len(commits) = 0
                   THEN pc' = "exit1" /\ UNCHANGED result
                   ELSE /\ pc' = "output"
                        /\ result' = [analysis |-> Report(commits, now, o.mode),
                                      format |-> o.format]
  /\ UNCHANGED <<argv, raw, commits, now>>

NextCli == Run

SpecCli == InitCli /\ [][NextCli]_vars

\* Inputs of the six functions called one after another.
PurityCommits ==
  {c \in AllCommits : c.date # DateAt(Now0 - (StaleDays + 1) * Day, 0) /\ Len(c.files) # 1}

PurityOptions == {NoOpts, [top |-> 1, minCommits |-> 1, maxFilesPerCommit |-> 2]}

InitAnalyzers == InitWith(SeqsUpTo(PurityCommits, MaxPurityCommits), PurityOptions)

\* Any of the exported analysis functions is called, and time passes
\* between the calls.
NextAnalyzers ==
  \/ CallHotspots
  \/ CallCoupling
  \/ CallCodeAge
  \/ CallAuthors
  \/ CallKnowledgeSilos
  \/ CallAnalyzeAll
  \/ Tick

SpecAnalyzers == InitAnalyzers /\ [][NextAnalyzers]_vars

\* Reference counts, taken directly from the commit sequence.
TouchingCommits(cs, p) ==
  {i \in 1..Len(cs) : \E j \in 1..Len(cs[i].files) : cs[i].files[j].path = p}

ChangesOf(cs, p) ==
  UNION {{<<i, j>> : j \in {k \in 1..Len(cs[i].files) : cs[i].files[k].path = p}} :
           i \in 1..Len(cs)}

RECURSIVE ChurnOver(_, _)
ChurnOver(cs, S) ==
  IF S = {} THEN 0
  ELSE LET x == CHOOSE y \in S : TRUE
           f == cs[x[1]].files[x[2]]
       IN  f.added + f.deleted + ChurnOver(cs, S \ {x})

AuthorsOf(cs, p) == {cs[i].author : i \in TouchingCommits(cs, p)}

AllPaths(cs) ==
  UNION {{cs[i].files[j].path : j \in 1..Len(cs[i].files)} : i \in 1..Len(cs)}

\* C1: the list returned by hotspots is sorted by descending commits, ties by
\* descending churn, and holds at most top entries.
C1_HotspotsSortedAndCapped ==
  pc = "hotspots" =>
    /\ Len(result) <= HotspotsTop(opts)
    /\ \A i \in 1..(Len(result) - 1) :
         /\ result[i].commits >= result[i + 1].commits
         /\ (result[i].commits = result[i + 1].commits
               => result[i].churn >= result[i + 1].churn)

\* A call that truncated, and whose first two entries tie on commits and were
\* put in order by churn against the order of their first appearance.
C1_Witness ==
  /\ pc = "hotspots"
  /\ HotspotsTop(opts) = 2
  /\ Cardinality(AllPaths(commits)) = 3
  /\ Len(result) = 2
  /\ result[1].commits = result[2].commits
  /\ result[1].churn > result[2].churn
  /\ commits[1].files[1].path = result[2].path

\* C2: each hotspot entry has commits = the number of commits touching the
\* path, churn = the sum of added + deleted over the changes to the path, and
\* authors = the number of distinct authors of those commits.
C2_HotspotCounts ==
  pc = "hotspots" =>
    \A i \in 1..Len(result) :
      /\ result[i].commits = Cardinality(TouchingCommits(commits, result[i].path))
      /\ result[i].churn = ChurnOver(commits, ChangesOf(commits, result[i].path))
      /\ result[i].authors = Cardinality(AuthorsOf(commits, result[i].path))

\* What the code does count: one per file-change record.
C2_CountsRecords ==
  pc = "hotspots" =>
    \A i \in 1..Len(result) :
      /\ result[i].commits = Cardinality(ChangesOf(commits, result[i].path))
      /\ result[i].churn = ChurnOver(commits, ChangesOf(commits, result[i].path))
      /\ result[i].authors = Cardinality(AuthorsOf(commits, result[i].path))

-----------------------------------------------------------------------------
(* Claims about coupling *)

PathSet(commit) == {commit.files[j].path : j \in 1..Len(commit.files)}

\* The commits coupling takes into account: 2..maxFilesPerCommit distinct paths.
Qualifying(cs, maxFilesPerCommit) ==
  {k \in 1..Len(cs) : Cardinality(PathSet(cs[k])) >= 2
                       /\ Cardinality(PathSet(cs[k])) <= maxFilesPerCommit}

QualifyingWith(cs, maxFilesPerCommit, S) ==
  {k \in Qualifying(cs, maxFilesPerCommit) : S \subseteq PathSet(cs[k])}

CouplingMapsOf(cs, o) ==
  CouplingMaps([pairs |-> <<>>, fileCounts |-> <<>>], cs, CouplingMaxFiles(o))

CouplingDenominator(cs, o, e) ==
  Min(MapGetOrZero(CouplingMapsOf(cs, o).fileCounts, e.fileA),
      MapGetOrZero(CouplingMapsOf(cs, o).fileCounts, e.fileB))

\* C3: every pair returned by coupling has 0 <= degree <= 1: its count never
\* exceeds the denominator min(totalA, totalB), and the denominator is not 0.
C3_DegreeInUnitInterval ==
  pc = "coupling" =>
    \A i \in 1..Len(result) :
      /\ CouplingDenominator(commits, opts, result[i]) # 0
      /\ result[i].coupled <= CouplingDenominator(commits, opts, result[i])
      /\ result[i].degree.finite
      /\ result[i].degree.hundredths >= 0
      /\ result[i].degree.hundredths <= 100

\* C4: every pair names two distinct paths of the input, the smaller first, no
\* unordered pair is reported twice, coupled is the number of qualifying
\* commits that contain both, and the per-path counters count qualifying
\* commits only.
C4_PairsAreCooccurrences ==
  pc = "coupling" =>
    /\ \A i \in 1..Len(result) :
         /\ result[i].fileA # result[i].fileB
         /\ result[i].fileA \in AllPaths(commits)
         /\ result[i].fileB \in AllPaths(commits)
         /\ StrCmp(result[i].fileA, result[i].fileB) < 0
         /\ result[i].coupled =
              Cardinality(QualifyingWith(commits, CouplingMaxFiles(opts),
                                         {result[i].fileA, result[i].fileB}))
    /\ \A i, j \in 1..Len(result) :
         i # j => {result[i].fileA, result[i].fileB} # {result[j].fileA, result[j].fileB}
    /\ LET counts == CouplingMapsOf(commits, opts).fileCounts
       IN  \A k \in 1..Len(counts) :
             counts[k].count =
               Cardinality(QualifyingWith(commits, CouplingMaxFiles(opts), {counts[k].key}))

DegreeGeq(x, y) == ~x.finite \/ (y.finite /\ x.hundredths >= y.hundredths)

\* C5: the list returned by coupling holds only pairs whose count is at least
\* minCommits, in descending order of coupled, ties in descending order of
\* degree, at most top of them, and none when no pair counter reaches minCommits.
C5_CouplingFilteredSortedCapped ==
  pc = "coupling" =>
    /\ Len(result) <= CouplingTop(opts)
    /\ \A i \in 1..Len(result) : result[i].coupled >= CouplingMinCommits(opts)
    /\ \A i \in 1..(Len(result) - 1) :
         /\ result[i].coupled >= result[i + 1].coupled
         /\ (result[i].coupled = result[i + 1].coupled
               => DegreeGeq(result[i].degree, result[i + 1].degree))
    /\ LET pairs == CouplingMapsOf(commits, opts).pairs
       IN  (\A k \in 1..Len(pairs) : pairs[k].count < CouplingMinCommits(opts))
             => result = <<>>

\* A call whose sort moved the pair counted first behind pairs of higher
\* degree that tie with it on coupled, and whose truncation then dropped it.
C5_Witness ==
  /\ pc = "coupling"
  /\ LET maps == CouplingMapsOf(commits, opts)
         first == CouplingEntry(maps.pairs[1], maps.fileCounts)
     IN  /\ Len(maps.pairs) > CouplingTop(opts)
         /\ \A k \in 1..Len(maps.pairs) : maps.pairs[k].count >= CouplingMinCommits(opts)
         /\ Len(result) = 2
         /\ \A i \in 1..2 : result[i] # first
         /\ first.coupled = result[2].coupled
         /\ first.degree.finite /\ result[2].degree.finite
         /\ first.degree.hundredths < result[2].degree.hundredths

-----------------------------------------------------------------------------
(* Claims about codeAge *)

\* C6: the five bucket counts of codeAge add up to totalFiles, which is the
\* number of distinct paths touched by any commit.
C6_BucketsPartitionFiles ==
  pc = "codeAge" =>
    /\ result.buckets["fresh"] + result.buckets["recent"] + result.buckets["aging"]
         + result.buckets["stale"] + result.buckets["ancient"] = result.totalFiles
    /\ result.totalFiles = Cardinality(AllPaths(commits))

\* Three paths, one of them touched twice, in an old and a young bucket.
C6_Witness ==
  /\ pc = "codeAge"
  /\ result.totalFiles = 3
  /\ result.buckets["ancient"] >= 1
  /\ result.buckets["fresh"] >= 1
  /\ \E p \in AllPaths(commits) : Cardinality(TouchingCommits(commits, p)) = 2

FirstOf(S) == CHOOSE i \in S : \A j \in S : i <= j
LastOf(S) == CHOOSE i \in S : \A j \in S : i >= j

\* C7: lastModified is the date of the first commit of the walk that touches
\* the path, firstSeen the date of the last one, and the two differ for a path
\* touched by commits of different dates.
C7_FirstSeenIsLastOccurrence ==
  pc = "codeAge" =>
    \A i \in 1..Len(result.oldest) :
      LET e == result.oldest[i]
          T == TouchingCommits(commits, e.path)
      IN  /\ e.lastModified = commits[FirstOf(T)].date
          /\ e.firstSeen = commits[LastOf(T)].date
          /\ ((\E j, k \in T : commits[j].date # commits[k].date)
                => e.firstSeen # e.lastModified)

\* What the code does: both are the date of the first commit of the walk.
C7_BothAreFirstOccurrence ==
  pc = "codeAge" =>
    \A i \in 1..Len(result.oldest) :
      LET e == result.oldest[i]
          T == TouchingCommits(commits, e.path)
      IN  /\ e.lastModified = commits[FirstOf(T)].date
          /\ e.firstSeen = commits[FirstOf(T)].date

-----------------------------------------------------------------------------
(* Claims about knowledgeSilos *)

\* C8: each entry of knowledgeSilos names a path touched by exactly one
\* distinct author in the whole input, reports that author, and has a commit
\* count of at least minCommits.
C8_SilosHaveOneAuthor ==
  pc = "knowledgeSilos" =>
    \A i \in 1..Len(result) :
      /\ AuthorsOf(commits, result[i].path) = {result[i].author}
      /\ result[i].commits >= SilosMinCommits(opts)
      /\ result[i].commits = Cardinality(ChangesOf(commits, result[i].path))

\* A silo is reported while another path, with two authors and enough commits,
\* is left out.
C8_Witness ==
  /\ pc = "knowledgeSilos"
  /\ Len(result) >= 1
  /\ \E p \in AllPaths(commits) :
       /\ Cardinality(AuthorsOf(commits, p)) = 2
       /\ Cardinality(ChangesOf(commits, p)) >= SilosMinCommits(opts)
       /\ SilosMinCommits(opts) >= 1

SiloPaths(r) == {r[i].path : i \in 1..Len(r)}

\* C9: a call of knowledgeSilos with a threshold at least as high as that of
\* the call before it returns a subset of the paths that call returned.
C9_SilosShrinkWithMinCommits ==
  [][(pc = "knowledgeSilos" /\ pc' = "knowledgeSilos"
        /\ SilosMinCommits(opts) <= SilosMinCommits(opts'))
       => SiloPaths(result') \subseteq SiloPaths(result)]_vars

\* The cap truncated a list in which a path counted after the first SiloCap
\* ones was sorted to the front.
C9_Witness ==
  /\ pc = "knowledgeSilos"
  /\ SilosMinCommits(opts) = 1
  /\ Cardinality(AllPaths(commits)) > SiloCap
  /\ Len(result) = SiloCap
  /\ result[1].path = WidePath(SiloCap + 1)
  /\ result[1].commits > result[SiloCap].commits

-----------------------------------------------------------------------------
(* Claims about analyzeAll *)

EmptyReport ==
  [summary |-> [totalCommits |-> 0, totalAuthors |-> 0, dateRange |-> Null],
   hotspots |-> <<>>,
   coupling |-> <<>>,
   codeAge |-> [buckets |-> [fresh |-> 0, recent |-> 0, aging |-> 0, stale |-> 0,
                             ancient |-> 0],
                oldest |-> <<>>, freshest |-> <<>>, totalFiles |-> 0],
   authors |-> <<>>,
   knowledgeSilos |-> <<>>]

\* C10: analyzeAll on the empty commit sequence returns totalCommits = 0,
\* totalAuthors = 0, dateRange = null, empty lists and a codeAge of zeros.
C10_EmptyInputGivesEmptyReport ==
  (pc = "analyzeAll" /\ commits = <<>>) => result = EmptyReport

\* analyzeAll has returned on the empty sequence, after time has passed.
C10_Witness ==
  /\ pc = "analyzeAll"
  /\ commits = <<>>
  /\ now > Now0
  /\ result.summary.totalCommits = 0

\* C11: the summary of analyzeAll has totalCommits = the length of the input,
\* totalAuthors = the number of distinct author strings, dateRange null exactly
\* when the input is empty and otherwise from the date of the last element to
\* the date of the first; each of the five sections is what its analyzer
\* returns for the same input with its default options (codeAge at the clock
\* reading of the call).
C11_SummaryAndSections ==
  [][(pc' = "analyzeAll" /\ now' = now) =>
       /\ result'.summary.totalCommits = Len(commits)
       /\ result'.summary.totalAuthors =
            Cardinality({commits[i].author : i \in 1..Len(commits)})
       /\ (result'.summary.dateRange = Null) <=> (commits = <<>>)
       /\ (commits # <<>> =>
             /\ result'.summary.dateRange.from = commits[Len(commits)].date
             /\ result'.summary.dateRange.to = commits[1].date)
       /\ result'.hotspots = hotspots(commits, HotspotsDefaultTop)
       /\ result'.coupling = coupling(commits, CouplingDefaultTop,
                                      CouplingDefaultMinCommits, CouplingDefaultMaxFiles)
       /\ result'.codeAge = codeAge(commits, now)
       /\ result'.authors = authors(commits, AuthorsDefaultTop)
       /\ result'.knowledgeSilos = knowledgeSilos(commits, SilosDefaultMinCommits)]_vars

\* Three commits of two authors and different dates fill the sections, the
\* coupling section with its default minCommits included.
C11_Witness ==
  /\ pc = "analyzeAll"
  /\ Len(commits) = MaxAllCommits + 1
  /\ commits[1].date # commits[Len(commits)].date
  /\ result.summary.totalAuthors = 2
  /\ result.summary.dateRange.from = commits[Len(commits)].date
  /\ result.hotspots # <<>>
  /\ result.coupling # <<>>
  /\ Len(result.authors) = 2
  /\ result.codeAge.totalFiles >= 2

-----------------------------------------------------------------------------
(* Claims about authors *)

CommitsBy(cs, name) == {i \in 1..Len(cs) : cs[i].author = name}

\* The file changes <<commit, position>> of the commits of an author.
ChangesBy(cs, name) ==
  UNION {{<<i, j>> : j \in 1..Len(cs[i].files)} : i \in CommitsBy(cs, name)}

RECURSIVE AddedOver(_, _)
AddedOver(cs, S) ==
  IF S = {} THEN 0
  ELSE LET x == CHOOSE y \in S : TRUE
       IN  cs[x[1]].files[x[2]].added + AddedOver(cs, S \ {x})

RECURSIVE DeletedOver(_, _)
DeletedOver(cs, S) ==
  IF S = {} THEN 0
  ELSE LET x == CHOOSE y \in S : TRUE
       IN  cs[x[1]].files[x[2]].deleted + DeletedOver(cs, S \ {x})

PathsBy(cs, name) == {cs[x[1]].files[x[2]].path : x \in ChangesBy(cs, name)}

AuthorNamesOf(cs) == {cs[i].author : i \in 1..Len(cs)}

\* C12: authors returns one entry per distinct author string, up to top of
\* them, each with commits = the number of commits of the author, added and
\* deleted = the sums over the file changes of those commits, filesChanged =
\* the number of distinct paths in them; the entries are in descending order
\* of commits.
C12_AuthorEntries ==
  pc = "authors" =>
    /\ Len(result) = Min(Cardinality(AuthorNamesOf(commits)), AuthorsTop(opts))
    /\ \A i, j \in 1..Len(result) : i # j => result[i].name # result[j].name
    /\ \A i \in 1..Len(result) :
         /\ result[i].name \in AuthorNamesOf(commits)
         /\ result[i].commits = Cardinality(CommitsBy(commits, result[i].name))
         /\ result[i].added = AddedOver(commits, ChangesBy(commits, result[i].name))
         /\ result[i].deleted = DeletedOver(commits, ChangesBy(commits, result[i].name))
         /\ result[i].filesChanged = Cardinality(PathsBy(commits, result[i].name))
    /\ \A i \in 1..(Len(result) - 1) : result[i].commits >= result[i + 1].commits

\* Authors whose names differ in case only are told apart; the author of the
\* first commit was sorted behind another and cut off by top, and the first
\* entry counts a path once that its commits changed more than once.
C12_Witness ==
  /\ pc = "authors"
  /\ AuthorNamesOf(commits) = {"Alice", "alice"}
  /\ AuthorsTop(opts) = 1
  /\ Len(result) = 1
  /\ result[1].name # commits[1].author
  /\ result[1].commits = 2
  /\ result[1].added > 0
  /\ result[1].filesChanged < Cardinality(ChangesBy(commits, result[1].name))

-----------------------------------------------------------------------------
(* Claims about binary file changes *)

KeptBlocks(r) == SelectSeq(r, LAMBDA b : Len(b.head) + Len(b.numstat) >= 4)

StatLinesOf(b) == SelectSeq(b.numstat, LAMBDA l : Len(l) = 3)

\* The file changes of a log: <<block, line>>.
RawChanges(r) ==
  UNION {{<<k, j>> : j \in 1..Len(StatLinesOf(KeptBlocks(r)[k]))} :
           k \in 1..Len(KeptBlocks(r))}

RawLine(r, x) == StatLinesOf(KeptBlocks(r)[x[1]])[x[2]]

RawAuthor(r, x) == KeptBlocks(r)[x[1]].head[2]

IsNumeric(tok) == tok # <<>> /\ \A i \in 1..Len(tok) : IsDigit(tok[i])

ReportedBinary(l) == ~IsNumeric(l[1]) \/ ~IsNumeric(l[2])

\* The sum of a count field over file changes, a binary change counting 0.
RECURSIVE RawSum(_, _, _)
RawSum(r, S, field) ==
  IF S = {} THEN 0
  ELSE LET x == CHOOSE y \in S : TRUE
           l == RawLine(r, x)
       IN  (IF ReportedBinary(l) THEN 0 ELSE DecimalValue(l[field], Len(l[field])))
             + RawSum(r, S \ {x}, field)

RawChangesOfPath(r, p) == {x \in RawChanges(r) : RawLine(r, x)[3] = p}

RawChangesOfAuthor(r, au) == {x \in RawChanges(r) : RawAuthor(r, x) = au}

\* C13: a file change reported with a non-numeric added or deleted count is
\* parsed as binary = true, added = 0, deleted = 0; it adds 0 to the churn,
\* added and deleted sums of its path and of its author, and still adds 1 to
\* the commit count of its path and its author to the authors of its path.
C13_BinaryChangesCountZeroLines ==
  (commits # <<>> /\ pc \in {"parseRawLog", "hotspots", "authors"}) =>
    /\ Len(commits) = Len(KeptBlocks(raw))
    /\ \A x \in RawChanges(raw) :
         /\ x[2] <= Len(commits[x[1]].files)
         /\ commits[x[1]].files[x[2]].path = RawLine(raw, x)[3]
         /\ (ReportedBinary(RawLine(raw, x)) =>
               /\ commits[x[1]].files[x[2]].binary
               /\ commits[x[1]].files[x[2]].added = 0
               /\ commits[x[1]].files[x[2]].deleted = 0)
    /\ (pc = "hotspots" =>
          /\ \A x \in RawChanges(raw) :
               \E i \in 1..Len(result) : result[i].path = RawLine(raw, x)[3]
          /\ \A i \in 1..Len(result) :
               LET S == RawChangesOfPath(raw, result[i].path)
               IN  /\ result[i].commits = Cardinality(S)
                   /\ result[i].added = RawSum(raw, S, 1)
                   /\ result[i].deleted = RawSum(raw, S, 2)
                   /\ result[i].churn = RawSum(raw, S, 1) + RawSum(raw, S, 2)
                   /\ result[i].authors = Cardinality({RawAuthor(raw, x) : x \in S}))
    /\ (pc = "authors" =>
          \A i \in 1..Len(result) :
            LET S == RawChangesOfAuthor(raw, result[i].name)
            IN  /\ result[i].added = RawSum(raw, S, 1)
                /\ result[i].deleted = RawSum(raw, S, 2))

\* hotspots has counted a path that one author changed as a binary file and
\* another with line counts: two commits, two authors, the lines of one.
C13_Witness ==
  /\ pc = "hotspots"
  /\ Len(commits) = 2
  /\ commits[1].author # commits[2].author
  /\ \E j \in 1..Len(commits[1].files) :
       /\ commits[1].files[j].binary
       /\ \E i \in 1..Len(result) :
            /\ result[i].path = commits[1].files[j].path
            /\ result[i].commits = 2
            /\ result[i].authors = 2
            /\ result[i].churn = 5

-----------------------------------------------------------------------------
(* Claims about the command line *)

Sections == {"hotspots", "coupling", "codeAge", "authors", "knowledgeSilos"}

\* The section a flag of the command line selects.
SelectedSection(mode) ==
  CASE mode = "hotspots" -> "hotspots"
    [] mode = "coupling" -> "coupling"
    [] mode = "age" -> "codeAge"
    [] mode = "authors" -> "authors"
    [] mode = "silos" -> "knowledgeSilos"

EmptyOrNull(v) == v = <<>> \/ v = Null

\* C14: when the command line selects one section, the report handed to the
\* formatter carries that section as analyzeAll computed it (codeAge for
\* --age, knowledgeSilos for --silos) and every other section empty or null.
C14_OnlySelectedSection ==
  (pc = "output" /\ opts.mode # "all") =>
    /\ result.analysis[SelectedSection(opts.mode)]
         = analyzeAll(commits, now)[SelectedSection(opts.mode)]
    /\ \A sec \in Sections \ {SelectedSection(opts.mode)} :
         EmptyOrNull(result.analysis[sec])

\* What the code does with --age: the codeAge section is null and the value
\* is stored under the key "age", which no formatter reads.
C14_AgeStoredUnderAge ==
  (pc = "output" /\ opts.mode = "age") =>
    /\ result.analysis["codeAge"] = Null
    /\ result.analysis["age"] = analyzeAll(commits, now).codeAge

\* With the other four flags the report is as claimed.
C14_OtherFlagsSelect ==
  (pc = "output" /\ opts.mode \notin {"all", "age"}) =>
    /\ DOMAIN result.analysis = Sections \cup {"summary"}
    /\ result.analysis[SelectedSection(opts.mode)]
         = analyzeAll(commits, now)[SelectedSection(opts.mode)]
    /\ \A sec \in Sections \ {SelectedSection(opts.mode)} :
         EmptyOrNull(result.analysis[sec])

-----------------------------------------------------------------------------
(* Claims about the ages of codeAge *)

\* The age in days of a path at a clock reading, from its first occurrence.
RefAgeDays(cs, clock, p) ==
  (clock - ParseDate(cs[FirstOf(TouchingCommits(cs, p))].date)) \div Day

PathsAged(cs, clock, lo, hi) ==
  {p \in AllPaths(cs) : lo <= RefAgeDays(cs, clock, p) /\ RefAgeDays(cs, clock, p) <= hi}

PathsOlderThan(cs, clock, lo) == {p \in AllPaths(cs) : lo < RefAgeDays(cs, clock, p)}

PathsAgedAtMost(cs, clock, hi) == {p \in AllPaths(cs) : RefAgeDays(cs, clock, p) <= hi}

ListedAges(list, cs, clock) ==
  \A i \in 1..Len(list) :
    /\ list[i].path \in AllPaths(cs)
    /\ list[i].lastModified = cs[FirstOf(TouchingCommits(cs, list[i].path))].date
    /\ list[i].ageDays = RefAgeDays(cs, clock, list[i].path)

\* C15: codeAge gives each path ageDays = floor((now - lastModified) / 1 day)
\* from the date of its first occurrence in the walk; up to 7 days is fresh,
\* 8..30 recent, 31..90 aging, 91..365 stale, more ancient; oldest and
\* freshest hold at most 15 files in descending and ascending order of
\* ageDays, and oldest[0].ageDays >= freshest[0].ageDays when a file is touched.
C15_AgesBucketsAndLists ==
  [][(pc' = "codeAge" /\ now' = now) =>
       LET r == result'
           n == Cardinality(AllPaths(commits))
       IN  /\ ListedAges(r.oldest, commits, now)
           /\ ListedAges(r.freshest, commits, now)
           /\ r.buckets["fresh"] = Cardinality(PathsAgedAtMost(commits, now, 7))
           /\ r.buckets["recent"] = Cardinality(PathsAged(commits, now, 8, 30))
           /\ r.buckets["aging"] = Cardinality(PathsAged(commits, now, 31, 90))
           /\ r.buckets["stale"] = Cardinality(PathsAged(commits, now, 91, 365))
           /\ r.buckets["ancient"] = Cardinality(PathsOlderThan(commits, now, 365))
           /\ Len(r.oldest) = Min(n, 15)
           /\ Len(r.freshest) = Min(n, 15)
           /\ \A i \in 1..(Len(r.oldest) - 1) : r.oldest[i].ageDays >= r.oldest[i + 1].ageDays
           /\ \A i \in 1..(Len(r.freshest) - 1) :
                r.freshest[i].ageDays <= r.freshest[i + 1].ageDays
           /\ \A i, j \in 1..Len(r.oldest) : i # j => r.oldest[i].path # r.oldest[j].path
           /\ \A i, j \in 1..Len(r.freshest) : i # j => r.freshest[i].path # r.freshest[j].path
           /\ (n > 0 => r.oldest[1].ageDays >= r.freshest[1].ageDays)]_vars

\* Seventeen paths at both sides of the boundary of seven days: the two
\* fresh ones, counted first, are sorted behind the fifteen of eight days and
\* cut off the oldest list; they lead the freshest list.
C15_Witness ==
  /\ pc = "codeAge"
  /\ result.totalFiles = CodeAgeListCap + 2
  /\ result.buckets["fresh"] = 2
  /\ result.buckets["recent"] = CodeAgeListCap
  /\ commits[1].files[1].path = WidePath(CodeAgeListCap + 1)
  /\ Len(result.oldest) = CodeAgeListCap
  /\ result.oldest[1].path = WidePath(1)
  /\ result.oldest[CodeAgeListCap].ageDays = FreshDays + 1
  /\ Len(result.freshest) = CodeAgeListCap
  /\ result.freshest[1].path = WidePath(CodeAgeListCap + 1)
  /\ result.freshest[1].ageDays = FreshDays

-----------------------------------------------------------------------------
(* Claims about purity *)

\* C16: the five analyzers and analyzeAll are pure: an invocation returns
\* what the invocation before it of the same function with the same commits
\* and options returned, whatever happened in between, and no invocation
\* modifies the commit sequence.
C16_InvocationsArePure ==
  [][/\ commits' = commits
     /\ (pc # "start" /\ pc' = pc /\ opts' = opts) => result' = result]_vars

\* What the code does: hotspots, coupling, authors and knowledgeSilos return
\* equal results; codeAge and analyzeAll read the clock, and two of their
\* invocations return equal results when the clock shows the same time.
C16_PureButForTheClock ==
  [][/\ commits' = commits
     /\ (pc \in {"hotspots", "coupling", "authors", "knowledgeSilos"}
           /\ pc' = pc /\ opts' = opts) => result' = result
     /\ (pc' = "codeAge" /\ now' = now) => result' = codeAge(commits, now)
     /\ (pc' = "analyzeAll" /\ now' = now) => result' = analyzeAll(commits, now)]_vars

=============================================================================
